---- MODULE Spec2Model ----
(***************************************************************************)
(* Session aggregation of the Node SDK: the SessionFlusher of              *)
(* packages/hub/src/sessionflusher.ts (one flat map of hour buckets plus   *)
(* the attributes of the first pending session) and the SessionFlusher of  *)
(* packages/hub/src/session.ts (a two-level map, attributes then hour      *)
(* bucket), with the Transport and the logger they talk to; and the        *)
(* Session object of packages/hub/src/session.ts with its constructor,     *)
(* update, close and toJSON.                                               *)
(*                                                                         *)
(* JavaScript objects are modelled by what the code can observe of them:   *)
(*  - an object with optional properties is a function whose DOMAIN is the *)
(*    set of properties it holds (an absent property is undefined);        *)
(*  - an optional value is a sequence of length 0 (undefined) or 1;        *)
(*  - a plain object used as a map is the sequence of its entries in       *)
(*    insertion order, which is the order Object.keys returns for keys     *)
(*    that are not array indices (millisecond timestamps, JSON strings);   *)
(*  - aggregate buckets are shared mutable objects: they live in heap and  *)
(*    maps and payloads hold references (indices into heap) to them.       *)
(*  - a value that may be a string or a number carries its type, and a     *)
(*    call that ends with an exception sets threw.                         *)
(* Times are milliseconds counted from the start of an hour of the epoch,  *)
(* so that they stay within TLC's integers.                                *)
(***************************************************************************)
EXTENDS Integers, Sequences, FiniteSets, Bags, TLC

\* ---------------------------------------------------------------- bounds
\* addSession calls made in one behaviour
MaxSessions == 2

\* ------------------------------------------------------- program constants
\* setMinutes(0, 0, 0) truncates to the top of the hour
HourMs == 3600000

\* ---------------------------------------------------------------- inputs
Statuses == {"ok", "exited", "crashed", "abnormal"}
Counters == {"exited", "errored", "crashed", "abnormal"}
ErrorCounts == {0, 2}
\* 0:00:00.000 and 0:40:00.250 of the first hour, 1:05:00.000 of the next
StartedValues == {0, 2400250, 3900000}
ReleaseValues == {<<"1.0">>, <<"2.0">>}
EnvironmentValues == {<<>>, <<"prod">>}
\* ipAddress and userAgent of a session: both undefined, or both set
IdentityValues == {<< <<>>, <<>> >>, << <<"10.0.0.1">>, <<"node">> >>}
\* offsets of the local time zone from UTC: none, or half an hour
TimezoneOffsets == {0, 1800000}
Implementations == {"sessionflusher.ts", "session.ts"}

\* ---------------------------------------------------------------- objects
\* the property `name` when the optional value holds one, nothing otherwise
Prop(name, opt) == [k \in (IF opt = <<>> THEN {} ELSE {name}) |-> opt[1]]

Has(obj, name) == name \in DOMAIN obj

\* a Session as the flushers read it
SessionOf(status, errors, started, release, environment, ipAddress, userAgent) ==
  [k \in {"status", "errors", "started"} |->
      CASE k = "status" -> status [] k = "errors" -> errors [] OTHER -> started]
    @@ Prop("release", release) @@ Prop("environment", environment)
    @@ Prop("ipAddress", ipAddress) @@ Prop("userAgent", userAgent)

\* the sessions handed to addSession: every status with every error count, every
\* started value, every (release, environment) and every identity, each varied
\* with the other fields at those of BaseSession, and one session that differs
\* from BaseSession in every field
BaseSession == SessionOf("ok", 0, 0, <<"1.0">>, <<"prod">>, <<>>, <<>>)

Sessions ==
  { SessionOf(st, er, 0, <<"1.0">>, <<"prod">>, <<>>, <<>>) :
      st \in Statuses, er \in ErrorCounts }
  \cup { SessionOf("ok", 0, sd, <<"1.0">>, <<"prod">>, <<>>, <<>>) : sd \in StartedValues }
  \cup { SessionOf("ok", 0, 0, re, en, <<>>, <<>>) :
          re \in ReleaseValues, en \in EnvironmentValues }
  \cup { SessionOf("ok", 0, 0, <<"1.0">>, <<"prod">>, id[1], id[2]) : id \in IdentityValues }
  \cup { SessionOf("crashed", 2, 3900000, <<"2.0">>, <<>>, <<"10.0.0.1">>, <<"node">>) }

VARIABLES
  impl,               \* which SessionFlusher class was instantiated
  tzOffset,           \* local time minus UTC, in ms
  transportHasSend,   \* the Transport has sendSessions
  intervalId,         \* TRUE while the setInterval timer is registered
  heap,               \* the bucket objects allocated so far
  pendingAggregates,  \* sessionflusher.ts: entries [key, ref] in insertion order
  sessionAttrs,       \* sessionflusher.ts: _sessionAttrs, <<>> when undefined
  nestedAggregates,   \* session.ts: entries [key, buckets], buckets as above
  sent,               \* payloads handed to Transport.sendSessions, in order
  lastLog,            \* the logger's most recent line, <<>> when none
  last,               \* the call that ran last: [op, status, errors, identity]
  added,              \* addSession calls so far
  sinceDrain,         \* addSession calls since the buffer was created or drained
  closed,             \* close() has been called
  sources,            \* per bucket object: the attributes of the sessions counted in it
  ledger,             \* bag of <<window, class>> of the sessions added since the last drain
  threw,              \* the call that ran last ended with an exception
  sessionFields,      \* the fields of one Session object
  sessionCall,        \* the call made last on the Session: [op, context, status]
  uuids,              \* uuid4() calls so far
  calls,              \* update() and close() calls made on the Session so far
  didSupplied,        \* some context given to the Session so far carried a did
  autoSessionTracking,\* the NodeClient's option: <<>> when undefined, else <<b>>
  sessionFlusher,     \* the NodeClient has a _sessionFlusher
  sentSessions,       \* the sessions handed to _sendSession, in order, as they were
  clientLog,          \* the warning of the captureSession call that ran last, <<>> when none
  captures            \* captureSession calls so far

vars == <<impl, tzOffset, transportHasSend, intervalId, heap, pendingAggregates,
          sessionAttrs, nestedAggregates, sent, lastLog, last, added,
          sinceDrain, closed, sources, ledger, threw,
          sessionFields, sessionCall, uuids, calls, didSupplied,
          autoSessionTracking, sessionFlusher, sentSessions, clientLog, captures>>

clientVars == <<autoSessionTracking, sessionFlusher, sentSessions, clientLog, captures>>

sessionVars == <<sessionFields, sessionCall, uuids, calls, didSupplied>>

flusherVars == <<impl, tzOffset, transportHasSend, intervalId, heap, pendingAggregates,
                 sessionAttrs, nestedAggregates, sent, lastLog, last, added,
                 sinceDrain, closed, sources, ledger, threw>>

\* ---------------------------------------------------------------- helpers
EmptyObject == [k \in {} |-> 0]

Count(bucket, counter) == IF Has(bucket, counter) THEN bucket[counter] ELSE 0

BucketTotal(bucket) ==
  Count(bucket, "exited") + Count(bucket, "errored")
    + Count(bucket, "crashed") + Count(bucket, "abnormal")

RECURSIVE SumTotals(_)
SumTotals(buckets) ==
  IF buckets = <<>> THEN 0
  ELSE BucketTotal(Head(buckets)) + SumTotals(Tail(buckets))

\* index of the entry of map `m` under `key`, 0 when the map has none
Find(m, key) ==
  IF \E i \in 1..Len(m) : m[i].key = key
  THEN CHOOSE i \in 1..Len(m) : m[i].key = key
  ELSE 0

\* the bucket objects a sequence of references points to, as they are now
Deref(refs) == [i \in 1..Len(refs) |-> heap[refs[i]]]

Refs(m) == [i \in 1..Len(m) |-> m[i].ref]

\* new Date(started).setMinutes(0, 0, 0): minutes, seconds and milliseconds
\* of the LOCAL time are zeroed; the result is again a UTC timestamp
setMinutes000(started) == started - ((started + tzOffset) % HourMs)

\* new Date(ms).toISOString(): hour, minute, second, millisecond (UTC)
toISOString(ms) ==
  <<ms \div 3600000, (ms % 3600000) \div 60000, (ms % 60000) \div 1000, ms % 1000>>

\* getSessionAttributes that returns the user's attributes whatever it is asked
getSessionAttributes_WithUserInfo(session, withUserInfo) ==
  [k \in {"release", "environment", "ipAddress", "userAgent"} \cap DOMAIN session |->
     session[k]]

\* Session.getSessionAttributes(withUserInfo)
getSessionAttributes(session, withUserInfo) ==
  LET base == [k \in {"release", "environment"} \cap DOMAIN session |-> session[k]]
      user == [k \in {"ipAddress", "userAgent"} \cap DOMAIN session |-> session[k]]
  IN IF withUserInfo THEN base @@ user ELSE base

\* errors are looked at before the status
Classify_ErrorsFirst(session) ==
  IF session["errors"] > 0 THEN "errored"
  ELSE IF session["status"] = "crashed" THEN "crashed"
  ELSE IF session["status"] = "abnormal" THEN "abnormal"
  ELSE "exited"

\* the counter addSession picks for a session (sessionflusher.ts)
Classify(session) ==
  IF session["status"] = "crashed" THEN "crashed"
  ELSE IF session["status"] = "abnormal" THEN "abnormal"
  ELSE IF session["errors"] > 0 THEN "errored"
  ELSE "exited"

\* counts.c = 1 whatever counts.c was
Increment_StartsOver(bucket, counter) ==
  [k \in DOMAIN bucket \cup {counter} |-> IF k = counter THEN 1 ELSE bucket[k]]

\* counts.c = counts.c !== undefined ? counts.c + 1 : 1
Increment(bucket, counter) ==
  [k \in DOMAIN bucket \cup {counter} |->
     IF k = counter
     THEN (IF Has(bucket, counter) THEN bucket[counter] + 1 ELSE 1)
     ELSE bucket[k]]

\* the bucket is left without its started
WithStarted_Never(bucket, trunc) == bucket

\* if (!counts.started) counts.started = new Date(trunc).toISOString()
WithStarted(bucket, trunc) ==
  IF Has(bucket, "started") THEN bucket
  ELSE bucket @@ [k \in {"started"} |-> toISOString(trunc)]

Called(op) == [op |-> op, status |-> "", errors |-> 0, identity |-> FALSE]

CalledWith(session) ==
  [op |-> "addSession", status |-> session["status"], errors |-> session["errors"],
   identity |-> Has(session, "ipAddress") \/ Has(session, "userAgent")]

\* the counter the strict priority crashed, abnormal, errored, exited gives
Expected(counter, status, errors) ==
  /\ (counter = "crashed") = (status = "crashed")
  /\ (counter = "abnormal") = (status = "abnormal")
  /\ (counter = "errored") = (status \notin {"crashed", "abnormal"} /\ errors > 0)
  /\ (counter = "exited") = (status \notin {"crashed", "abnormal"} /\ errors <= 0)

\* the session joins the sessions added since the last drain, under its window
\* and the class the documented priority gives it
Ledgered(session) ==
  LET window == toISOString(setMinutes000(session["started"]))
      class == CHOOSE c \in Counters : Expected(c, session["status"], session["errors"])
  IN ledger (+) SetToBag({<<window, class>>})

\* the attributes of `session` join those counted in bucket `ref`
Counted(ref, session) ==
  LET attrs == getSessionAttributes(session, FALSE)
  IN IF ref > Len(sources) THEN Append(sources, {attrs})
     ELSE [sources EXCEPT ![ref] = @ \cup {attrs}]

\* ------------------------------------------------------ the Session object
\* the values Date.now() returns
NowValues == {1000, 2000}

\* the n-th string uuid4() returns: 32 characters, never one returned before
uuid4(n) == "0000000000000000000000000000000" \o ToString(n)

\* strings and numbers that may stand where the other kind is expected (a
\* user's id) carry their type: <<"string", s>> or <<"number", n>>
String(s) == <<"string", s>>
Number(n) == <<"number", n>>

\* the truth value JavaScript gives a string or a number
Truthy(v) == v \notin {String(""), Number(0)}

\* the template literal `${v}`
TemplateLiteral(v) == IF v[1] = "number" THEN ToString(v[2]) ELSE v[2]

\* if (context.k) for a property k that holds strings
TruthyString(context, k) == Has(context, k) /\ context[k] # ""

\* obj.k = v, and obj.k = undefined
Set(obj, k, v) == [x \in DOMAIN obj \cup {k} |-> IF x = k THEN v ELSE obj[x]]
Unset(obj, k) == [x \in DOMAIN obj \ {k} |-> obj[x]]

\* the field initializers of class Session: timestamp and started are two
\* calls of Date.now()
Session_new(timestamp, started) ==
  [errors |-> 0, sid |-> uuid4(1), timestamp |-> timestamp, started |-> started,
   duration |-> 0, status |-> "ok", sessionMode |-> "application", init |-> TRUE]

\* context.user.id || context.user.email || context.user.username, as an
\* optional value: the first truthy one, else username whatever it is
UserDid(user) ==
  IF Has(user, "id") /\ Truthy(user["id"]) THEN <<user["id"]>>
  ELSE IF Has(user, "email") /\ Truthy(user["email"]) THEN <<user["email"]>>
  ELSE IF Has(user, "username") THEN <<user["username"]>>
  ELSE <<>>

\* Session.update, lines 41-49: if (context.user) { ... }
update_user(s, context) ==
  LET hasUser == Has(context, "user") /\ context["user"] # <<>>
      user == context["user"][1]
      s1 == IF hasUser /\ TruthyString(user, "ip_address")
            THEN Set(s, "ipAddress", user["ip_address"]) ELSE s
  IN IF hasUser /\ ~TruthyString(context, "did")
     THEN (IF UserDid(user) = <<>> THEN Unset(s1, "did")
           ELSE Set(s1, "did", UserDid(user)[1]))
     ELSE s1

\* line 51: this.timestamp = context.timestamp || Date.now()
update_timestamp(s, context, now) ==
  Set(s, "timestamp",
      IF Has(context, "timestamp") /\ context["timestamp"] # 0
      THEN context["timestamp"] ELSE now)

\* a supplied sid is taken as it is, whatever its length
update_sid_Verbatim(s, context, fresh) ==
  IF TruthyString(context, "sid") THEN Set(s, "sid", context["sid"]) ELSE s

\* lines 53-56: if (context.sid) this.sid = length === 32 ? context.sid : uuid4()
update_sid(s, context, fresh) ==
  IF TruthyString(context, "sid")
  THEN Set(s, "sid", IF Len(context["sid"]) = 32 THEN context["sid"] ELSE fresh)
  ELSE s

\* any update without an init puts the flag out
update_init_Clears(s, context) ==
  Set(s, "init", IF Has(context, "init") THEN context["init"] ELSE FALSE)

\* lines 57-59: if (context.init !== undefined) this.init = context.init
update_init(s, context) ==
  IF Has(context, "init") THEN Set(s, "init", context["init"]) ELSE s

\* lines 60-62: if (context.did) this.did = `${context.did}`
update_did(s, context) ==
  IF TruthyString(context, "did")
  THEN Set(s, "did", String(TemplateLiteral(String(context["did"])))) ELSE s

\* lines 63-65: if (typeof context.started === 'number') ...
update_started(s, context) ==
  IF Has(context, "started") THEN Set(s, "started", context["started"]) ELSE s

\* the duration computed the wrong way round
update_duration_Reversed(s, context) ==
  Set(s, "duration",
      IF Has(context, "duration") THEN context["duration"]
      ELSE s["started"] - s["timestamp"])

\* lines 66-70: the given duration, else timestamp - started
update_duration(s, context) ==
  Set(s, "duration",
      IF Has(context, "duration") THEN context["duration"]
      ELSE s["timestamp"] - s["started"])

\* lines 71-82: if (context.k) this.k = context.k for one of release,
\* environment, ipAddress, userAgent
update_attribute(s, context, k) ==
  IF TruthyString(context, k) THEN Set(s, k, context[k]) ELSE s

\* an update without errors puts the count back to zero
update_errors_Resets(s, context) ==
  Set(s, "errors", IF Has(context, "errors") THEN context["errors"] ELSE 0)

\* a supplied count is added to the count so far
update_errors_Adds(s, context) ==
  IF Has(context, "errors") THEN Set(s, "errors", s["errors"] + context["errors"]) ELSE s

\* lines 83-85: if (typeof context.errors === 'number') ...
update_errors(s, context) ==
  IF Has(context, "errors") THEN Set(s, "errors", context["errors"]) ELSE s

\* an update without a status puts the status back to ok
update_status_Resets(s, context) ==
  IF TruthyString(context, "status") THEN Set(s, "status", context["status"])
  ELSE Set(s, "status", "ok")

\* lines 86-88: if (context.status) this.status = context.status
update_status(s, context) ==
  IF TruthyString(context, "status") THEN Set(s, "status", context["status"]) ELSE s

\* lines 89-91: if (context.sessionMode) this.sessionMode = context.sessionMode
update_sessionMode(s, context) ==
  IF TruthyString(context, "sessionMode")
  THEN Set(s, "sessionMode", context["sessionMode"]) ELSE s

\* Session.update(context); `now` is what Date.now() returns and `fresh` what
\* uuid4() returns, should the call reach them
Session_update(s, context, now, fresh) ==
  LET s1 == update_user(s, context)
      s2 == update_timestamp(s1, context, now)
      s3 == update_sid(s2, context, fresh)
      s4 == update_init(s3, context)
      s5 == update_did(s4, context)
      s6 == update_started(s5, context)
      s7 == update_duration(s6, context)
      s8 == update_attribute(s7, context, "release")
      s9 == update_attribute(s8, context, "environment")
      s10 == update_attribute(s9, context, "ipAddress")
      s11 == update_attribute(s10, context, "userAgent")
      s12 == update_errors(s11, context)
      s13 == update_status(s12, context)
  IN update_sessionMode(s13, context)

\* the call reaches uuid4()
CallsUuid4(context) == TruthyString(context, "sid") /\ Len(context["sid"]) # 32

\* close() that sets exited whatever the status is
Session_close_AlwaysExits(s, status, now, fresh) ==
  IF status # <<>> /\ status[1] # ""
  THEN Session_update(s, [k \in {"status"} |-> status[1]], now, fresh)
  ELSE Session_update(s, [k \in {"status"} |-> "exited"], now, fresh)

\* Session.close(status); status is <<>> when the argument is left out
Session_close(s, status, now, fresh) ==
  IF status # <<>> /\ status[1] # ""
  THEN Session_update(s, [k \in {"status"} |-> status[1]], now, fresh)
  ELSE IF s["status"] = "ok"
       THEN Session_update(s, [k \in {"status"} |-> "exited"], now, fresh)
       ELSE Session_update(s, EmptyObject, now, fresh)

\* the value of property k as an optional value
Opt(obj, k) == IF Has(obj, k) THEN <<obj[k]>> ELSE <<>>

\* dropUndefinedKeys of @sentry/utils on an object literal whose properties
\* are optional values: the properties that are undefined are left out
dropUndefinedKeys(val) == [k \in {x \in DOMAIN val : val[x] # <<>>} |-> val[k][1]]

\* attrs with the two identity attributes under each other's name
toJSON_attrs_Swapped(s) ==
  dropUndefinedKeys([release |-> Opt(s, "release"),
                     environment |-> Opt(s, "environment"),
                     ip_address |-> Opt(s, "userAgent"),
                     user_agent |-> Opt(s, "ipAddress")])

\* Session.toJSON, lines 152-157: the attrs object
toJSON_attrs(s) ==
  dropUndefinedKeys([release |-> Opt(s, "release"),
                     environment |-> Opt(s, "environment"),
                     ip_address |-> Opt(s, "ipAddress"),
                     user_agent |-> Opt(s, "userAgent")])

\* Session.toJSON
Session_toJSON(s) ==
  dropUndefinedKeys(
    [sid |-> <<TemplateLiteral(String(s["sid"]))>>,
     init |-> <<s["init"]>>,
     started |-> <<toISOString(s["started"])>>,
     timestamp |-> <<toISOString(s["timestamp"])>>,
     status |-> <<s["status"]>>,
     session_mode |-> <<s["sessionMode"]>>,
     errors |-> <<s["errors"]>>,
     did |-> IF Has(s, "did") THEN <<TemplateLiteral(s["did"])>> ELSE <<>>,
     duration |-> <<s["duration"]>>,
     attrs |-> <<toJSON_attrs(s)>>])

\* ------------------------------------------ the contexts callers pass in
Ctx(k, v) == [x \in {k} |-> v]

SuppliedSids == {"", "abc", "0123456789abcdef0123456789abcdef",
                 "0123456789abcdef0123456789abcdef0"}

Users ==
  {EmptyObject, Ctx("id", String("u1")), Ctx("id", Number(7)),
   Ctx("email", String("e@x")), Ctx("username", String("")),
   Ctx("ip_address", "10.0.0.2"),
   Ctx("id", String("")) @@ Ctx("username", String("name"))}

\* update({k: v}) for every property and, for each, a truthy and a falsy
\* value, and contexts that carry two properties the code relates
Contexts ==
  {EmptyObject}
    \cup {Ctx("sid", v) : v \in SuppliedSids}
    \cup {Ctx("init", v) : v \in BOOLEAN}
    \cup {Ctx("did", v) : v \in {"", "d1"}}
    \cup {Ctx("timestamp", v) : v \in {0, 7000}}
    \cup {Ctx("started", v) : v \in {0, 3000}}
    \cup {Ctx("duration", v) : v \in {0, 50}}
    \cup {Ctx("status", v) : v \in Statuses}
    \cup {Ctx("release", v) : v \in {"", "1.0"}}
    \cup {Ctx("environment", v) : v \in {"", "prod"}}
    \cup {Ctx("ipAddress", v) : v \in {"", "10.0.0.1"}}
    \cup {Ctx("userAgent", v) : v \in {"", "node"}}
    \cup {Ctx("errors", v) : v \in ErrorCounts \cup {-1}}
    \cup {Ctx("sessionMode", v) : v \in {"application", "request"}}
    \cup {Ctx("user", v) : v \in {<<>>} \cup {<<u>> : u \in Users}}
    \cup {Ctx("did", "d1") @@ Ctx("user", <<u>>) : u \in Users}
    \cup {Ctx("started", 3000) @@ Ctx("timestamp", 7000),
          Ctx("started", 3000) @@ Ctx("duration", 50),
          Ctx("status", "crashed") @@ Ctx("errors", 2),
          Ctx("sid", "abc") @@ Ctx("release", "2.0")}

\* the constructor's parameter is Omit<SessionContext, 'started' | 'status'>
ConstructorContexts ==
  {context \in Contexts : ~Has(context, "started") /\ ~Has(context, "status")}

\* close() and close(status), status: Exclude<SessionStatus, SessionStatus.Ok>
CloseStatuses == {<<>>} \cup {<<status>> : status \in Statuses \ {"ok"}}

SessionCalled(op, context, status) == [op |-> op, context |-> context, status |-> status]

\* ------------------------------------------------------------------ Init
\* new NodeClient(options), lines 20-27: the flusher is created unless
\* options.autoSessionTracking is false
NodeClient_new(option) ==
  /\ autoSessionTracking = option
  /\ sessionFlusher = (option = <<>> \/ option[1])
  /\ sentSessions = <<>>
  /\ clientLog = <<>>
  /\ captures = 0

\* new SessionFlusher(transport), with the history variables at their start
SessionFlusher_new ==
  /\ intervalId = TRUE
  /\ heap = <<>>
  /\ pendingAggregates = <<>>
  /\ sessionAttrs = <<>>
  /\ nestedAggregates = <<>>
  /\ sent = <<>>
  /\ lastLog = <<>>
  /\ last = Called("constructor")
  /\ added = 0
  /\ sinceDrain = 0
  /\ closed = FALSE
  /\ sources = <<>>
  /\ ledger = EmptyBag
  /\ threw = FALSE

\* no Session has been constructed yet
Session_none ==
  /\ sessionFields = EmptyObject
  /\ sessionCall = SessionCalled("none", EmptyObject, <<>>)
  /\ uuids = 0
  /\ calls = 0
  /\ didSupplied = FALSE

Init ==
  /\ impl \in Implementations
  /\ tzOffset \in TimezoneOffsets
  /\ transportHasSend \in BOOLEAN
  /\ SessionFlusher_new
  /\ Session_none
  /\ NodeClient_new(<<>>)

\* ------------------------------------- SessionFlusher of sessionflusher.ts
\* the call this._transport.sendSessions(aggregatedSession): a Transport that
\* has the method takes the payload and returns a promise; calling the method
\* on a Transport that lacks it is a TypeError
Transport_sendSessions(aggregatedSession) ==
  IF transportHasSend
  THEN /\ sent' = Append(sent, [attrs |-> aggregatedSession.attrs,
                                aggregates |-> aggregatedSession.aggregates,
                                handoff |-> Deref(aggregatedSession.aggregates),
                                state |-> "pending"])
       /\ lastLog' = lastLog
       /\ threw' = FALSE
  ELSE /\ sent' = sent
       /\ lastLog' = lastLog
       /\ threw' = TRUE

\* sendSessions without its test for the Transport's sendSessions
sendSessions_NoCheck(aggregatedSession) ==
  Transport_sendSessions(aggregatedSession)

\* SessionFlusher.sendSessions
sendSessions(aggregatedSession) ==
  IF ~transportHasSend
  THEN /\ lastLog' = <<"warn">>
       /\ sent' = sent
       /\ threw' = FALSE
  ELSE Transport_sendSessions(aggregatedSession)

\* flush without its test for an empty buffer
flush_NoEmptyCheck ==
  /\ pendingAggregates' = <<>>
  /\ sessionAttrs' = <<>>
  /\ sinceDrain' = 0
  /\ ledger' = EmptyBag
  /\ sendSessions([attrs |-> sessionAttrs, aggregates |-> Refs(pendingAggregates)])

\* flush that hands the buckets over and keeps them in the buffer too
flush_KeepBuffer ==
  IF Len(pendingAggregates) = 0
  THEN /\ UNCHANGED <<pendingAggregates, sessionAttrs, sent, lastLog, sinceDrain, ledger>>
       /\ threw' = FALSE
  ELSE /\ pendingAggregates' = pendingAggregates
       /\ sessionAttrs' = <<>>
       /\ sinceDrain' = sinceDrain
       /\ ledger' = ledger
       /\ sendSessions([attrs |-> sessionAttrs, aggregates |-> Refs(pendingAggregates)])

\* SessionFlusher.flush
flush ==
  IF Len(pendingAggregates) = 0
  THEN /\ UNCHANGED <<pendingAggregates, sessionAttrs, sent, lastLog, sinceDrain, ledger>>
       /\ threw' = FALSE
  ELSE /\ pendingAggregates' = <<>>
       /\ sessionAttrs' = <<>>
       /\ sinceDrain' = 0
       /\ ledger' = EmptyBag
       /\ sendSessions([attrs |-> sessionAttrs, aggregates |-> Refs(pendingAggregates)])

\* SessionFlusher.addSession
addSession(session) ==
  LET sessionStartedTrunc == setMinutes000(session["started"])
      i == Find(pendingAggregates, sessionStartedTrunc)
      ref == IF i = 0 THEN Len(heap) + 1 ELSE pendingAggregates[i].ref
      allocated == IF i = 0 THEN Append(heap, EmptyObject) ELSE heap
      aggregationCounts == WithStarted(allocated[ref], sessionStartedTrunc)
  IN /\ impl = "sessionflusher.ts"
     /\ sessionAttrs' = IF sessionAttrs = <<>>
                        THEN <<getSessionAttributes(session, FALSE)>>
                        ELSE sessionAttrs
     /\ pendingAggregates' =
          IF i = 0
          THEN Append(pendingAggregates, [key |-> sessionStartedTrunc, ref |-> ref])
          ELSE pendingAggregates
     /\ heap' = [allocated EXCEPT ![ref] = Increment(aggregationCounts, Classify(session))]
     /\ sources' = Counted(ref, session)
     /\ last' = CalledWith(session)
     /\ added' = added + 1
     /\ sinceDrain' = sinceDrain + 1
     /\ ledger' = Ledgered(session)
     /\ threw' = FALSE
     /\ UNCHANGED <<impl, tzOffset, transportHasSend, intervalId, nestedAggregates,
                    sent, lastLog, closed>>

\* an addSession call made on the flusher directly
AddSession(session) == addSession(session) /\ UNCHANGED <<sessionVars, clientVars>>

\* an explicit call of flush()
Flush ==
  /\ impl = "sessionflusher.ts"
  /\ flush
  /\ last' = Called("flush")
  /\ UNCHANGED <<sessionVars, clientVars, impl, tzOffset, transportHasSend, intervalId, heap,
                 nestedAggregates, added, closed, sources>>

\* the setInterval callback of the constructor: this.flush.bind(this)
TimerFires ==
  /\ impl = "sessionflusher.ts"
  /\ intervalId
  /\ flush
  /\ last' = Called("timer")
  /\ UNCHANGED <<sessionVars, clientVars, impl, tzOffset, transportHasSend, intervalId, heap,
                 nestedAggregates, added, closed, sources>>

\* close that leaves the interval registered
close_KeepsTimer ==
  /\ impl = "sessionflusher.ts"
  /\ intervalId' = intervalId
  /\ flush
  /\ closed' = TRUE
  /\ last' = Called("close")
  /\ UNCHANGED <<sessionVars, clientVars, impl, tzOffset, transportHasSend, heap, nestedAggregates, added,
                 sources>>

\* SessionFlusher.close
close ==
  /\ impl = "sessionflusher.ts"
  /\ intervalId' = FALSE
  /\ flush
  /\ closed' = TRUE
  /\ last' = Called("close")
  /\ UNCHANGED <<sessionVars, clientVars, impl, tzOffset, transportHasSend, heap, nestedAggregates, added,
                 sources>>

\* the promise of Transport.sendSessions is fulfilled: then(null, ...) does nothing
TransportResolves(i) ==
  /\ sent[i].state = "pending"
  /\ sent' = [sent EXCEPT ![i].state = "resolved"]
  /\ last' = Called("resolved")
  /\ UNCHANGED <<sessionVars, clientVars, impl, tzOffset, transportHasSend, intervalId, heap,
                 pendingAggregates, sessionAttrs, nestedAggregates, lastLog,
                 added, sinceDrain, closed, sources, ledger>>
  /\ threw' = FALSE

\* a rejection handler that logs and hands the same payload to the Transport again
TransportRejects_Resend(i) ==
  /\ sent[i].state = "pending"
  /\ sent' = Append([sent EXCEPT ![i].state = "rejected"],
                    [sent[i] EXCEPT !.handoff = Deref(sent[i].aggregates)])
  /\ lastLog' = <<"error">>
  /\ last' = Called("rejected")
  /\ UNCHANGED <<sessionVars, clientVars, impl, tzOffset, transportHasSend, intervalId, heap,
                 pendingAggregates, sessionAttrs, nestedAggregates,
                 added, sinceDrain, closed, sources, ledger>>
  /\ threw' = FALSE

\* the promise of Transport.sendSessions is rejected: the handler logs the reason
TransportRejects(i) ==
  /\ sent[i].state = "pending"
  /\ sent' = [sent EXCEPT ![i].state = "rejected"]
  /\ lastLog' = <<"error">>
  /\ last' = Called("rejected")
  /\ UNCHANGED <<sessionVars, clientVars, impl, tzOffset, transportHasSend, intervalId, heap,
                 pendingAggregates, sessionAttrs, nestedAggregates,
                 added, sinceDrain, closed, sources, ledger>>
  /\ threw' = FALSE

\* ------------------------------------------- SessionFlusher of session.ts
\* new SessionAttributes(context), then JSON.stringify of it: toJSON renames the
\* properties and dropUndefinedKeys leaves out the absent ones; the string is
\* modelled by the name/value pairs it spells, in the order toJSON lists them
SessionAttributes_stringify(context) ==
  LET names == << <<"environment", "environment">>, <<"ipAddress", "ip_address">>,
                  <<"release", "release">>, <<"userAgent", "user_agent">> >>
      held == SelectSeq(names, LAMBDA n : Has(context, n[1]))
  IN [i \in 1..Len(held) |-> <<held[i][2], context[held[i][1]]>>]

\* the counter _addAggregateSession picks for a session (session.ts)
TwoLevel_Classify(session) ==
  IF session["status"] = "crashed" THEN "crashed"
  ELSE IF session["status"] = "abnormal" THEN "abnormal"
  ELSE IF session["errors"] > 0 THEN "errored"
  ELSE "exited"

\* SessionFlusher.flush of session.ts: two logger.log lines, nothing else
TwoLevel_flush ==
  /\ lastLog' = <<"log">>
  /\ threw' = FALSE
  /\ UNCHANGED <<nestedAggregates, sent, sinceDrain, ledger>>

\* SessionFlusher.addSession of session.ts, with _addAggregateSession
TwoLevel_addSession(session) ==
  LET sessionAttrsJson == SessionAttributes_stringify(getSessionAttributes(session, FALSE))
      sessionStartedTrunc == setMinutes000(session["started"])
      g == Find(nestedAggregates, sessionAttrsJson)
      groups == IF g = 0
                THEN Append(nestedAggregates, [key |-> sessionAttrsJson, buckets |-> <<>>])
                ELSE nestedAggregates
      gi == IF g = 0 THEN Len(nestedAggregates) + 1 ELSE g
      sessionAttrsBuckets == groups[gi].buckets
      i == Find(sessionAttrsBuckets, sessionStartedTrunc)
      ref == IF i = 0 THEN Len(heap) + 1 ELSE sessionAttrsBuckets[i].ref
      allocated == IF i = 0 THEN Append(heap, EmptyObject) ELSE heap
      aggregateSessionsMinuteBucket == WithStarted(allocated[ref], sessionStartedTrunc)
  IN /\ impl = "session.ts"
     /\ nestedAggregates' =
          [groups EXCEPT ![gi].buckets =
             IF i = 0
             THEN Append(sessionAttrsBuckets, [key |-> sessionStartedTrunc, ref |-> ref])
             ELSE sessionAttrsBuckets]
     /\ heap' = [allocated EXCEPT
                   ![ref] = Increment(aggregateSessionsMinuteBucket, TwoLevel_Classify(session))]
     /\ sources' = Counted(ref, session)
     /\ last' = CalledWith(session)
     /\ added' = added + 1
     /\ sinceDrain' = sinceDrain + 1
     /\ ledger' = Ledgered(session)
     /\ threw' = FALSE
     /\ UNCHANGED <<impl, tzOffset, transportHasSend, intervalId, pendingAggregates,
                    sessionAttrs, sent, lastLog, closed>>

TwoLevel_AddSession(session) ==
  TwoLevel_addSession(session) /\ UNCHANGED <<sessionVars, clientVars>>

\* an explicit call of flush()
TwoLevel_Flush ==
  /\ impl = "session.ts"
  /\ TwoLevel_flush
  /\ last' = Called("flush")
  /\ UNCHANGED <<sessionVars, clientVars, impl, tzOffset, transportHasSend, intervalId, heap,
                 pendingAggregates, sessionAttrs, added, closed, sources>>

\* the setInterval callback of the constructor
TwoLevel_TimerFires ==
  /\ impl = "session.ts"
  /\ intervalId
  /\ TwoLevel_flush
  /\ last' = Called("timer")
  /\ UNCHANGED <<sessionVars, clientVars, impl, tzOffset, transportHasSend, intervalId, heap,
                 pendingAggregates, sessionAttrs, added, closed, sources>>

\* SessionFlusher.close of session.ts
TwoLevel_close ==
  /\ impl = "session.ts"
  /\ intervalId' = FALSE
  /\ TwoLevel_flush
  /\ closed' = TRUE
  /\ last' = Called("close")
  /\ UNCHANGED <<sessionVars, clientVars, impl, tzOffset, transportHasSend, heap, pendingAggregates,
                 sessionAttrs, added, sources>>

\* ------------------------------------------------------------------ Next
Next ==
  \/ \E session \in Sessions : added < MaxSessions /\ AddSession(session)
  \/ Flush
  \/ TimerFires
  \/ close
  \/ \E i \in 1..Len(sent) : TransportResolves(i)
  \/ \E i \in 1..Len(sent) : TransportRejects(i)
  \/ \E session \in Sessions : added < MaxSessions /\ TwoLevel_AddSession(session)
  \/ TwoLevel_Flush
  \/ TwoLevel_TimerFires
  \/ TwoLevel_close

Spec == Init /\ [][Next]_vars

\* ------------------------------------------- one flush over many buckets
\* the configured maximum of items per envelope (session.ts)
maxItemsInEnvelope == 100

\* sessions the envelope runs add, and payloads they let the Transport take
MaxEnvelopeSessions == 101
MaxEnvelopeFlushes == 1

\* the n-th session of a caller that starts one session in every hour
HourlySession(n) == SessionOf("ok", 0, n * HourMs, <<"1.0">>, <<"prod">>, <<>>, <<>>)

InitEnvelope ==
  /\ Init
  /\ impl = "sessionflusher.ts"
  /\ transportHasSend
  /\ tzOffset = 0

NextEnvelope ==
  \/ added < MaxEnvelopeSessions /\ AddSession(HourlySession(added))
  \/ Len(sent) < MaxEnvelopeFlushes /\ Flush

SpecEnvelope == InitEnvelope /\ [][NextEnvelope]_vars

\* ------------------------------------------------ the timer keeps firing
\* setInterval calls its callback again and again until clearInterval
SpecFair == Spec /\ WF_vars(TimerFires) /\ WF_vars(TwoLevel_TimerFires)

\* --------------------------------------------- the life of one Session
\* update() and close() calls made on the Session
MaxCalls == 2

\* new Session(context): the field initializers, then update(context) when a
\* context is given; context is <<>> when the argument is left out
New(context) ==
  /\ sessionCall.op = "none"
  /\ \E timestamp \in NowValues, started \in NowValues, now \in NowValues :
       /\ timestamp <= started /\ started <= now
       /\ sessionFields' =
            IF context = <<>> THEN Session_new(timestamp, started)
            ELSE Session_update(Session_new(timestamp, started), context[1], now, uuid4(2))
  /\ uuids' = IF context # <<>> /\ CallsUuid4(context[1]) THEN 2 ELSE 1
  /\ sessionCall' = IF context = <<>> THEN SessionCalled("new", EmptyObject, <<>>)
                    ELSE SessionCalled("new(context)", context[1], <<>>)
  /\ didSupplied' = (context # <<>> /\ TruthyString(context[1], "did"))
  /\ UNCHANGED <<calls, flusherVars, clientVars>>

\* an update of a Session whose attributes object the flusher holds by
\* reference: what the flusher reads is what the session has now
Update_Aliased(context) ==
  /\ sessionCall.op # "none"
  /\ \E now \in NowValues :
       sessionFields' = Session_update(sessionFields, context, now, uuid4(uuids + 1))
  /\ uuids' = IF CallsUuid4(context) THEN uuids + 1 ELSE uuids
  /\ sessionCall' = SessionCalled("update", context, <<>>)
  /\ calls' = calls + 1
  /\ didSupplied' = (didSupplied \/ TruthyString(context, "did"))
  /\ sessionAttrs' = IF sessionAttrs = <<>> THEN <<>>
                     ELSE <<getSessionAttributes(sessionFields', FALSE)>>
  /\ UNCHANGED <<impl, tzOffset, transportHasSend, intervalId, heap, pendingAggregates,
                 nestedAggregates, sent, lastLog, last, added, sinceDrain, closed,
                 sources, ledger, threw, clientVars>>

\* session.update(context)
Update(context) ==
  /\ sessionCall.op # "none"
  /\ \E now \in NowValues :
       sessionFields' = Session_update(sessionFields, context, now, uuid4(uuids + 1))
  /\ uuids' = IF CallsUuid4(context) THEN uuids + 1 ELSE uuids
  /\ sessionCall' = SessionCalled("update", context, <<>>)
  /\ calls' = calls + 1
  /\ didSupplied' = (didSupplied \/ TruthyString(context, "did"))
  /\ UNCHANGED <<flusherVars, clientVars>>

\* session.close(status)
Close(status) ==
  /\ sessionCall.op # "none"
  /\ \E now \in NowValues :
       sessionFields' = Session_close(sessionFields, status, now, uuid4(uuids + 1))
  /\ uuids' = uuids
  /\ sessionCall' = SessionCalled("close", EmptyObject, status)
  /\ calls' = calls + 1
  /\ didSupplied' = didSupplied
  /\ UNCHANGED <<flusherVars, clientVars>>

InitSession ==
  /\ Init
  /\ impl = "sessionflusher.ts"
  /\ transportHasSend
  /\ tzOffset = 0

NextSession ==
  \/ \E context \in {<<>>} \cup {<<c>> : c \in ConstructorContexts} : New(context)
  \/ \E context \in Contexts : calls < MaxCalls /\ Update(context)
  \/ \E status \in CloseStatuses : calls < MaxCalls /\ Close(status)

SpecSession == InitSession /\ [][NextSession]_vars

\* ------------------------------------------------------------- NodeClient
MaxCaptures == 2

\* this._sendSession(session) of BaseClient: the session goes out on its own,
\* in the state it has at the call
BaseClient_sendSession(session) == sentSessions' = Append(sentSessions, session)

\* captureSession without the test of the session mode: every session that
\* has a release is sent on its own
captureSession_SendsAll ==
  /\ sessionCall.op # "none"
  /\ captures' = captures + 1
  /\ UNCHANGED <<autoSessionTracking, sessionFlusher>>
  /\ IF ~TruthyString(sessionFields, "release")
     THEN /\ clientLog' = <<"Discarded session because of missing release">>
          /\ UNCHANGED <<sessionVars, flusherVars, sentSessions>>
     ELSE /\ BaseClient_sendSession(sessionFields)
          /\ \E now \in NowValues :
               sessionFields' =
                 Session_update(sessionFields, Ctx("init", FALSE), now, uuid4(uuids + 1))
          /\ sessionCall' = SessionCalled("update", Ctx("init", FALSE), <<>>)
          /\ clientLog' = <<>>
          /\ UNCHANGED <<uuids, calls, didSupplied, flusherVars>>

\* NodeClient.captureSession(session), lines 31-48, on the one Session
captureSession ==
  /\ sessionCall.op # "none"
  /\ captures' = captures + 1
  /\ UNCHANGED <<autoSessionTracking, sessionFlusher>>
  /\ IF ~TruthyString(sessionFields, "release")
     THEN /\ clientLog' = <<"Discarded session because of missing release">>
          /\ UNCHANGED <<sessionVars, flusherVars, sentSessions>>
     ELSE IF sessionFields["sessionMode"] = "application"
     THEN /\ BaseClient_sendSession(sessionFields)
          /\ \E now \in NowValues :
               sessionFields' =
                 Session_update(sessionFields, Ctx("init", FALSE), now, uuid4(uuids + 1))
          /\ sessionCall' = SessionCalled("update", Ctx("init", FALSE), <<>>)
          /\ clientLog' = <<>>
          /\ UNCHANGED <<uuids, calls, didSupplied, flusherVars>>
     ELSE IF ~sessionFlusher
     THEN /\ clientLog' = <<"Discarded request mode session because autosessionTracking option was disabled">>
          /\ UNCHANGED <<sessionVars, flusherVars, sentSessions>>
     ELSE /\ addSession(sessionFields) \/ TwoLevel_addSession(sessionFields)
          /\ clientLog' = <<>>
          /\ UNCHANGED <<sessionVars, sentSessions>>

\* the contexts the application gives the Session it captures
ClientConstructorContexts ==
  {<<>>, <<Ctx("release", "1.0")>>, <<Ctx("release", "1.0") @@ Ctx("sessionMode", "request")>>}

ClientContexts ==
  {EmptyObject, Ctx("status", "crashed"), Ctx("errors", 2), Ctx("started", 3900000),
   Ctx("release", "2.0"), Ctx("environment", "prod"), Ctx("sessionMode", "request"),
   Ctx("init", TRUE), Ctx("init", FALSE)}

ClientCloseStatuses == {<<>>, <<"abnormal">>}

InitClient ==
  /\ impl \in Implementations
  /\ tzOffset = 0
  /\ transportHasSend = TRUE
  /\ SessionFlusher_new
  /\ Session_none
  /\ \E option \in {<<>>, <<TRUE>>, <<FALSE>>} : NodeClient_new(option)

NextClient ==
  \/ \E context \in ClientConstructorContexts : New(context)
  \/ \E context \in ClientContexts : calls < MaxCalls /\ Update(context)
  \/ \E status \in ClientCloseStatuses : calls < MaxCalls /\ Close(status)
  \/ captures < MaxCaptures /\ captureSession
  \/ sessionFlusher /\ Flush
  \/ sessionFlusher /\ TwoLevel_Flush

SpecClient == InitClient /\ [][NextClient]_vars

\* ------------------------------------------------------------- properties
FlushOps == {"flush", "timer", "close"}

Flat == impl = "sessionflusher.ts"

\* the bucket objects the pending buffer holds
PendingRefs ==
  IF Flat
  THEN {pendingAggregates[i].ref : i \in 1..Len(pendingAggregates)}
  ELSE UNION {{nestedAggregates[g].buckets[i].ref :
                 i \in 1..Len(nestedAggregates[g].buckets)} :
              g \in 1..Len(nestedAggregates)}

BufferEmpty == IF Flat THEN pendingAggregates = <<>> ELSE nestedAggregates = <<>>

\* bucket object `ref` as it was before the step; an object the step allocates
\* starts without any counter
Before(ref) == IF ref <= Len(heap) THEN heap[ref] ELSE EmptyObject

\* C1: every addSession call adds exactly 1 to exactly one counter of exactly one
\* bucket of the pending buffer and leaves every other counter of every bucket
\* as it was; the counter is crashed for a Crashed session, else abnormal for an
\* Abnormal one, else errored when errors > 0, else exited.
C1_OneCounterByPriority ==
  [][last'.op = "addSession" =>
       \E r \in PendingRefs', c \in Counters :
         /\ Expected(c, last'.status, last'.errors)
         /\ Len(heap') \in {Len(heap), Len(heap) + 1}
         /\ \A r2 \in 1..Len(heap'), c2 \in Counters :
              Count(heap'[r2], c2) =
                Count(Before(r2), c2) + (IF r2 = r /\ c2 = c THEN 1 ELSE 0)]_vars

\* a Crashed session with errors > 0 was added and is counted as crashed only
C1_Witness ==
  /\ last.op = "addSession" /\ last.status = "crashed" /\ last.errors > 0
  /\ added = 1
  /\ \E r \in PendingRefs : Count(heap[r], "crashed") = 1 /\ BucketTotal(heap[r]) = 1

\* C3: a flush of an empty pending buffer, by the timer, by an explicit call or
\* by close(), hands nothing to the Transport, whatever happened before.
C3_EmptyFlushSendsNothing ==
  [][(last'.op \in FlushOps /\ BufferEmpty) => sent' = sent]_vars

\* close() ran on an empty buffer after an earlier flush had sent the only
\* session and its send had completed
C3_Witness ==
  /\ last.op = "close" /\ BufferEmpty
  /\ added = 1 /\ Len(sent) = 1 /\ sent[1].state = "resolved"

\* C4: a payload handed to the Transport keeps the aggregates and counts it had
\* at the handoff, whatever addSession calls and flushes follow while its send
\* is in flight (sessionflusher.ts).
C4_PayloadKeepsHandoff ==
  Flat => \A p \in 1..Len(sent) : Deref(sent[p].aggregates) = sent[p].handoff

\* a session was added, while a send is in flight, to the very time window a
\* bucket of the payload in flight covers
C4_Witness ==
  /\ Flat /\ last.op = "addSession"
  /\ \E p \in 1..Len(sent), r \in PendingRefs :
       /\ sent[p].state = "pending"
       /\ \E j \in 1..Len(sent[p].handoff) : sent[p].handoff[j]["started"] = heap[r]["started"]

RECURSIVE SumPayloads(_)
SumPayloads(payloads) ==
  IF payloads = <<>> THEN 0
  ELSE SumTotals(Head(payloads).handoff) + SumPayloads(Tail(payloads))

RECURSIVE SetTotal(_)
SetTotal(refs) ==
  IF refs = {} THEN 0
  ELSE LET r == CHOOSE x \in refs : TRUE
       IN BucketTotal(heap[r]) + SetTotal(refs \ {r})

\* the sum of all counters of the pending buffer
PendingTotal == SetTotal(PendingRefs)

\* the payloads the step hands to the Transport
Handed == SubSeq(sent', Len(sent) + 1, Len(sent'))

\* C2: N addSession calls into an empty buffer followed by one flush() hand the
\* Transport payloads whose counters sum to N, and a flush() right after it hands
\* nothing.
C2_FlushHandsAllAdded ==
  [][/\ (last'.op \in FlushOps /\ transportHasSend) =>
          (Len(sent') >= Len(sent) /\ SumPayloads(Handed) = sinceDrain)
     /\ (last.op \in FlushOps /\ last'.op \in FlushOps) => sent' = sent]_vars

\* C5: addSession once, then close() before any flush: exactly one payload is
\* handed to the Transport and its counters sum to 1; every close() hands over,
\* in at most one payload, all that is pending when it is called.
C5_CloseSendsTrailingWindow ==
  [][(last'.op = "close" /\ transportHasSend) =>
       /\ SumPayloads(Handed) = sinceDrain
       /\ Len(sent') <= Len(sent) + 1
       /\ (added = 1 /\ sinceDrain = 1) =>
            (Len(sent') = 1 /\ SumTotals(sent'[1].handoff) = 1)]_vars

\* C6: the timer is registered from construction until close() and never again;
\* after close() no flush is run by the timer, addSession and flush can still be
\* called, and a session added after close() stays in the pending buffer: only
\* an explicit flush() or close() hands a payload to the Transport.
C6_LifecycleOneWay ==
  /\ [][/\ intervalId' => intervalId
        /\ (intervalId /\ ~intervalId') => last'.op = "close"
        /\ closed => last'.op # "timer"
        /\ (closed /\ last'.op = "addSession") =>
             (sent' = sent /\ PendingTotal' = PendingTotal + 1)
        /\ (closed /\ Len(sent') # Len(sent)) => last'.op \in {"flush", "close"}]_vars
  /\ [](intervalId = ~closed)
  /\ []((closed /\ Flat) =>
          /\ ENABLED Flush
          /\ added < MaxSessions => ENABLED AddSession(BaseSession))

\* a session was added after close() and waits in the pending buffer
C6_Witness ==
  /\ Flat /\ closed /\ ~intervalId
  /\ last.op = "addSession" /\ PendingTotal = 1 /\ sent = <<>>

\* C7: every count of a payload comes from sessions whose (release, environment)
\* are the payload's attrs (sessionflusher.ts).
C7_PayloadCountsMatchAttrs ==
  Flat => \A p \in 1..Len(sent) : \A j \in 1..Len(sent[p].aggregates) :
            \A attrs \in sources[sent[p].aggregates[j]] : sent[p].attrs = <<attrs>>

\* the groups of buckets under the top-level keys of the pending buffer: one per
\* time window in sessionflusher.ts, one per attributes string in session.ts
TopLevelGroups ==
  IF Flat
  THEN {{pendingAggregates[i].ref} : i \in 1..Len(pendingAggregates)}
  ELSE {{nestedAggregates[g].buckets[i].ref : i \in 1..Len(nestedAggregates[g].buckets)} :
          g \in 1..Len(nestedAggregates)}

Environment(attrs) == IF Has(attrs, "environment") THEN <<attrs["environment"]>> ELSE <<>>

\* C8: two sessions of one truncation window and one (release, environment) are
\* counted in one bucket, and two sessions that differ in environment are counted
\* under different top-level keys of the pending buffer.
C8_BucketingDeterministic ==
  /\ \A r1, r2 \in PendingRefs :
       (heap[r1]["started"] = heap[r2]["started"] /\ sources[r1] \cap sources[r2] # {})
         => r1 = r2
  /\ \A group \in TopLevelGroups : \A r1, r2 \in group :
       \A a1 \in sources[r1], a2 \in sources[r2] : Environment(a1) = Environment(a2)

\* C9, as the specification states it: a flush with a Transport that lacks
\* sendSessions logs a warning, hands nothing over and leaves in the pending
\* buffer all that was pending.
C9_MissingSendKeepsBuffer ==
  [][(last'.op \in FlushOps /\ Flat /\ ~transportHasSend /\ ~BufferEmpty) =>
       (lastLog' = <<"warn">> /\ sent' = sent /\ PendingTotal' = PendingTotal)]_vars

\* C9, amended: a flush with a Transport that lacks sendSessions logs a warning
\* and hands nothing over, but the buffer and the remembered attributes have
\* been emptied by then: what was pending is dropped.
C9_MissingSendDropsBuffer ==
  [][(last'.op \in FlushOps /\ Flat /\ ~transportHasSend /\ ~BufferEmpty) =>
       /\ lastLog' = <<"warn">>
       /\ sent' = sent
       /\ pendingAggregates' = <<>> /\ sessionAttrs' = <<>>
       /\ heap' = heap]_vars

\* a flush found sessions pending and no sendSessions: warning, empty buffer
C9_Witness ==
  /\ Flat /\ ~transportHasSend
  /\ last.op \in FlushOps /\ lastLog = <<"warn">>
  /\ added >= 1 /\ BufferEmpty /\ sent = <<>>

\* the bucket objects of payload p
PayloadRefs(p) == {sent[p].aggregates[j] : j \in 1..Len(sent[p].aggregates)}

\* C10: a rejected send is only logged: nothing returns to the pending buffer and
\* nothing is handed to the Transport again; the pending buffer holds exactly
\* the sessions added since the drain (sessionflusher.ts).
C10_RejectOnlyLogs ==
  /\ [][last'.op = "rejected" =>
          /\ lastLog' = <<"error">>
          /\ pendingAggregates' = pendingAggregates /\ sessionAttrs' = sessionAttrs
          /\ heap' = heap
          /\ Len(sent') = Len(sent)
          /\ \A p \in 1..Len(sent) : sent'[p].aggregates = sent[p].aggregates]_vars
  /\ [](Flat =>
          /\ PendingTotal = sinceDrain
          /\ \A p \in 1..Len(sent) : PayloadRefs(p) \cap PendingRefs = {}
          /\ \A p, q \in 1..Len(sent) : p # q => PayloadRefs(p) \cap PayloadRefs(q) = {})

\* a send was rejected and a session added afterwards is all the buffer holds
C10_Witness ==
  /\ Flat /\ Len(sent) = 1 /\ sent[1].state = "rejected" /\ lastLog = <<"error">>
  /\ last.op = "addSession" /\ added = 2 /\ sinceDrain = 1 /\ PendingTotal = 1

\* C11: no payload handed to the Transport carries more aggregates than
\* maxItemsInEnvelope; a flush over more buckets is split into several payloads
C11_PayloadWithinMaximum ==
  \A p \in 1..Len(sent) : Len(sent[p].aggregates) <= maxItemsInEnvelope

HandedRefs == UNION {PayloadRefs(p) : p \in 1..Len(sent)}

\* C12: with a Transport that has the send operation, every bucket a session
\* was added to while the flusher is Active is eventually part of a payload
\* handed to the Transport, and close() hands over everything pending
C12_AddedEventuallyHanded ==
  /\ \A r \in 1..MaxSessions :
       (r \in PendingRefs /\ transportHasSend /\ ~closed) ~> (r \in HandedRefs)
  /\ [][(last'.op = "close" /\ transportHasSend) => PendingRefs \subseteq HandedRefs']_vars

\* a session of the first hour and one of the next hour, of another class and
\* with other attributes
ProbeSessions ==
  {BaseSession, SessionOf("crashed", 2, 3900000, <<"2.0">>, <<>>, <<"10.0.0.1">>, <<"node">>)}

\* C13: no call ends with an exception, and addSession, flush and close can
\* be called and complete in every state: with an empty buffer, after close,
\* with a Transport that lacks sendSessions, after a rejected promise
C13_CallsReturnNormally ==
  /\ ~threw
  /\ Flat => /\ ENABLED Flush
             /\ ENABLED close
             /\ added < MaxSessions =>
                  \A session \in ProbeSessions : ENABLED AddSession(session)
  /\ ~Flat => /\ ENABLED TwoLevel_Flush
              /\ ENABLED TwoLevel_close
              /\ added < MaxSessions =>
                   \A session \in ProbeSessions : ENABLED TwoLevel_AddSession(session)

\* flush() on a closed flusher whose Transport lacks sendSessions returned
\* after the warning, the buffer drained
C13_Witness ==
  /\ Flat /\ closed /\ ~transportHasSend
  /\ last.op = "flush" /\ lastLog = <<"warn">> /\ ~threw
  /\ added > 0 /\ sinceDrain = 0 /\ BufferEmpty

\* ------------------------------------------------ properties of a Session
SessionExists == sessionCall.op # "none"

SessionFieldNames ==
  {"sid", "did", "init", "timestamp", "started", "duration", "status", "errors",
   "release", "environment", "ipAddress", "userAgent", "sessionMode"}

\* the fields a context names: its own properties, and did and ipAddress
\* through its user
Carried(context) ==
  DOMAIN context \cup (IF Has(context, "user") THEN {"did", "ipAddress"} ELSE {})

\* the step leaves every field outside `changing` as it was
Frame(changing) ==
  \A f \in SessionFieldNames \ changing : Opt(sessionFields', f) = Opt(sessionFields, f)

\* C14: when the status is not ok, a close() or an update() whose context has
\* no status leaves it different from ok, and such an update changes only
\* timestamp, duration and the fields its context carries
C14_StatusNeverBackToOk ==
  [][(/\ SessionExists
      /\ sessionFields["status"] # "ok"
      /\ \/ sessionCall'.op = "close"
         \/ sessionCall'.op = "update" /\ ~Has(sessionCall'.context, "status"))
     => /\ sessionFields'["status"] # "ok"
        /\ sessionCall'.op = "update" =>
             /\ sessionFields'["status"] = sessionFields["status"]
             /\ Frame({"timestamp", "duration"} \cup Carried(sessionCall'.context))]_vars

\* a closed session went through an update() that carries nothing
C14_Witness ==
  /\ calls = 2
  /\ sessionCall = SessionCalled("update", EmptyObject, <<>>)
  /\ sessionFields["status"] = "exited"

\* C15: close(status) sets the status to the one given; close() turns ok into
\* exited; close() on a status other than ok leaves the status and every
\* field but timestamp and duration as they were
C15_CloseSetsStatus ==
  [][(SessionExists /\ sessionCall'.op = "close" /\ calls' = calls + 1)
     => LET status == sessionCall'.status
        IN /\ status # <<>> => sessionFields'["status"] = status[1]
           /\ (status = <<>> /\ sessionFields["status"] = "ok")
                => sessionFields'["status"] = "exited"
           /\ (status = <<>> /\ sessionFields["status"] # "ok")
                => Frame({"timestamp", "duration"})]_vars

\* close() was called on a crashed session
C15_Witness ==
  /\ calls = 2
  /\ sessionCall = SessionCalled("close", EmptyObject, <<>>)
  /\ sessionFields["status"] = "crashed"

\* an update() call whose context has a sid property
SuppliesSid == sessionCall'.op = "update" /\ calls' = calls + 1 /\ Has(sessionCall'.context, "sid")

\* the sid after the step is one uuid4() returned during the step
FreshSid ==
  /\ uuids' = uuids + 1
  /\ sessionFields'["sid"] = uuid4(uuids')
  /\ sessionFields'["sid"] # sessionCall'.context["sid"]
  /\ sessionFields'["sid"] # sessionFields["sid"]

\* C16: a supplied sid of exactly 32 characters becomes the sid as it is; a
\* supplied sid of any other length, the empty string too, gives a freshly
\* generated sid that differs from the supplied and from the previous one
C16_SuppliedSidValidated ==
  [][SuppliesSid =>
       IF Len(sessionCall'.context["sid"]) = 32
       THEN sessionFields'["sid"] = sessionCall'.context["sid"]
       ELSE FreshSid]_vars

\* C16, amended: a supplied sid of exactly 32 characters becomes the sid as it
\* is; a non-empty sid of any other length gives a freshly generated sid that
\* differs from the supplied and from the previous one; an empty sid is taken
\* as no sid and the previous sid is kept
C16_NonEmptySidValidated ==
  [][SuppliesSid =>
       IF Len(sessionCall'.context["sid"]) = 32
       THEN sessionFields'["sid"] = sessionCall'.context["sid"]
       ELSE IF sessionCall'.context["sid"] = ""
            THEN sessionFields'["sid"] = sessionFields["sid"] /\ uuids' = uuids
            ELSE FreshSid]_vars

\* update({sid: 'abc'}) replaced the sid of the constructor by a second uuid4()
C16_Witness ==
  /\ sessionCall = SessionCalled("update", Ctx("sid", "abc"), <<>>)
  /\ uuids = 2
  /\ sessionFields["sid"] = uuid4(2)

\* ------------------------------------- properties of the SessionFlusher, 2
AttributeNames == {"release", "environment"}
IdentityStrings == UNION {{id[1][i] : i \in 1..Len(id[1])} \cup {id[2][i] : i \in 1..Len(id[2])}
                            : id \in IdentityValues}

\* an attributes object names only release and environment and holds no
\* string that is some session's ipAddress or userAgent
Anonymous(attrs) ==
  /\ DOMAIN attrs \subseteq AttributeNames
  /\ \A k \in DOMAIN attrs : attrs[k] \notin IdentityStrings

WithoutIdentity(session) ==
  [k \in DOMAIN session \ {"ipAddress", "userAgent"} |-> session[k]]

\* the sessions that hold an ipAddress or a userAgent
IdentitySessions ==
  {session \in Sessions : Has(session, "ipAddress") \/ Has(session, "userAgent")}

\* C17: the remembered attributes, the keys of both buffers, the buckets and
\* the payloads name release, environment, started and the four counters
\* only and hold no session's ipAddress or userAgent; a session and the same
\* session without ipAddress and userAgent get the same attributes and key
C17_NoIdentityInAggregates ==
  /\ \A i \in 1..Len(sessionAttrs) : Anonymous(sessionAttrs[i])
  /\ \A i \in 1..Len(pendingAggregates) : pendingAggregates[i].key \in Int
  /\ \A g \in 1..Len(nestedAggregates) :
       /\ \A n \in 1..Len(nestedAggregates[g].key) :
            /\ nestedAggregates[g].key[n][1] \in AttributeNames
            /\ nestedAggregates[g].key[n][2] \notin IdentityStrings
       /\ \A i \in 1..Len(nestedAggregates[g].buckets) :
            nestedAggregates[g].buckets[i].key \in Int
  /\ \A r \in 1..Len(heap) : DOMAIN heap[r] \subseteq {"started"} \cup Counters
  /\ \A p \in 1..Len(sent) :
       /\ \A i \in 1..Len(sent[p].attrs) : Anonymous(sent[p].attrs[i])
       /\ \A j \in 1..Len(sent[p].handoff) :
            DOMAIN sent[p].handoff[j] \subseteq {"started"} \cup Counters
  /\ \A session \in IdentitySessions :
       /\ getSessionAttributes(session, FALSE)
            = getSessionAttributes(WithoutIdentity(session), FALSE)
       /\ SessionAttributes_stringify(getSessionAttributes(session, FALSE))
            = SessionAttributes_stringify(getSessionAttributes(WithoutIdentity(session), FALSE))

\* a session that holds an ipAddress and a userAgent was added and is pending
C17_Witness ==
  /\ last.op = "addSession" /\ last.identity
  /\ ~BufferEmpty
  /\ Flat => sessionAttrs # <<>>

\* the attributes of the sessions counted in the pending buckets
PendingSources == UNION {sources[r] : r \in PendingRefs}

LedgerWindows == {e[1] : e \in BagToSet(ledger)}

\* C18: a flush over sessions that share one (release, environment) hands
\* over one payload with these attributes and one entry per window, and in
\* each entry a counter is present exactly when sessions of its class were
\* added in that window, and then equals their number
C18_OnePayloadPerAttributes ==
  [][(/\ Flat /\ transportHasSend
      /\ last'.op \in FlushOps
      /\ ~BufferEmpty
      /\ Cardinality(PendingSources) = 1)
     => /\ Len(Handed) = 1
        /\ Handed[1].attrs = <<CHOOSE a \in PendingSources : TRUE>>
        /\ LET entries == Handed[1].handoff
           IN /\ Len(entries) = Cardinality(LedgerWindows)
              /\ \A w \in LedgerWindows : \E j \in 1..Len(entries) : entries[j]["started"] = w
              /\ \A j \in 1..Len(entries), c \in Counters :
                   /\ Count(entries[j], c) = CopiesIn(<<entries[j]["started"], c>>, ledger)
                   /\ Has(entries[j], c) = BagIn(<<entries[j]["started"], c>>, ledger)]_vars

\* one ok session without errors and one ok session with two errors, started
\* in the same hour, were flushed as one entry with exited 1 and errored 1
C18_Witness ==
  /\ Flat /\ last.op = "flush" /\ added = 2
  /\ Len(sent) = 1
  /\ sent[1].attrs = <<[release |-> "1.0", environment |-> "prod"]>>
  /\ Len(sent[1].handoff) = 1
  /\ Count(sent[1].handoff[1], "exited") = 1
  /\ Count(sent[1].handoff[1], "errored") = 1
  /\ DOMAIN sent[1].handoff[1] = {"started", "exited", "errored"}

\* C19: in the output of toJSON, attrs.release, attrs.environment,
\* attrs.ip_address and attrs.user_agent are the session's release,
\* environment, ipAddress and userAgent, each present exactly when the session
\* holds it; status, errors, duration, sid and init are the session's; did is
\* present exactly when the session holds one
C19_ToJSONRoundTrip ==
  SessionExists =>
    LET json == Session_toJSON(sessionFields)
    IN /\ Opt(json["attrs"], "release") = Opt(sessionFields, "release")
       /\ Opt(json["attrs"], "environment") = Opt(sessionFields, "environment")
       /\ Opt(json["attrs"], "ip_address") = Opt(sessionFields, "ipAddress")
       /\ Opt(json["attrs"], "user_agent") = Opt(sessionFields, "userAgent")
       /\ DOMAIN json["attrs"] \subseteq {"release", "environment", "ip_address", "user_agent"}
       /\ json["status"] = sessionFields["status"]
       /\ json["errors"] = sessionFields["errors"]
       /\ json["duration"] = sessionFields["duration"]
       /\ json["sid"] = sessionFields["sid"]
       /\ json["init"] = sessionFields["init"]
       /\ Has(json, "did") = Has(sessionFields, "did")
       /\ Has(json, "did") => String(json["did"]) = String(TemplateLiteral(sessionFields["did"]))
       /\ DOMAIN json \subseteq {"sid", "init", "started", "timestamp", "status",
                                 "session_mode", "errors", "did", "duration", "attrs"}

\* a session that holds a release, an ipAddress and a numeric did, and neither
\* environment nor userAgent
C19_Witness ==
  /\ SessionExists
  /\ Has(sessionFields, "release") /\ Has(sessionFields, "ipAddress")
  /\ ~Has(sessionFields, "environment") /\ ~Has(sessionFields, "userAgent")
  /\ Has(sessionFields, "did") /\ sessionFields["did"] = Number(7)

\* C20: in every state the number of addSession calls made so far is the sum
\* of the counters of the pending buffer plus the sum of the counters of all
\* payloads handed to the Transport so far
C20_Conservation == added = PendingTotal + SumPayloads(sent)

\* C20, amended: the same, for a Transport that has sendSessions; with a
\* Transport that lacks it no payload is ever handed over and the pending
\* counters sum to the number of addSession calls since the last drain, what
\* was drained being dropped
C20_ConservationWithSend ==
  /\ transportHasSend => added = PendingTotal + SumPayloads(sent)
  /\ ~transportHasSend => (sent = <<>> /\ PendingTotal = sinceDrain)

\* one session went out in a payload the Transport rejected, after a second
\* one was added behind the flush
C20_Witness ==
  /\ Flat /\ transportHasSend /\ added = 2
  /\ Len(sent) = 1 /\ sent[1].state = "rejected" /\ SumPayloads(sent) = 1
  /\ PendingTotal = 1

\* the duration the last call's context gives, else timestamp - started of
\* the session as it is now
DurationByContext ==
  sessionFields["duration"] =
    IF Has(sessionCall.context, "duration") THEN sessionCall.context["duration"]
    ELSE sessionFields["timestamp"] - sessionFields["started"]

C22_ExplicitDidKept ==
  [][(/\ sessionCall'.op = "update" /\ calls' = calls + 1
      /\ Has(sessionCall'.context, "user"))
     => /\ TruthyString(sessionCall'.context, "did")
             => sessionFields'["did"] = String(sessionCall'.context["did"])
        /\ (~Has(sessionCall'.context, "did") /\ didSupplied)
             => Opt(sessionFields', "did") = Opt(sessionFields, "did")]_vars

\* C23: an update changes no field but timestamp, duration and the fields its
\* context carries (did and ipAddress also through a user), and an update
\* with an empty context changes no field but timestamp and duration
C23_UpdateFrame ==
  [][(sessionCall'.op = "update" /\ calls' = calls + 1)
     => /\ Frame({"timestamp", "duration"} \cup Carried(sessionCall'.context))
        /\ sessionCall'.context = EmptyObject => Frame({"timestamp", "duration"})]_vars

\* an empty update after update({errors: 2}) at a later clock reading: the
\* count is kept and the timestamp has moved
C23_Witness ==
  /\ sessionCall = SessionCalled("update", EmptyObject, <<>>)
  /\ calls = 2
  /\ sessionFields["errors"] = 2
  /\ sessionFields["timestamp"] = 2000
  /\ sessionFields["started"] = 1000

PendingEntries ==
  IF Flat
  THEN {pendingAggregates[i] : i \in 1..Len(pendingAggregates)}
  ELSE UNION {{nestedAggregates[g].buckets[i] :
                 i \in 1..Len(nestedAggregates[g].buckets)} :
              g \in 1..Len(nestedAggregates)}

\* C26: every pending bucket has a started, which is the ISO string of the
\* bucket's window key, and every counter it has is at least 1; while the
\* bucket stays pending under its key, its started does not change
C26_BucketStarted ==
  [][/\ \A e \in PendingEntries' :
          /\ Has(heap'[e.ref], "started")
          /\ heap'[e.ref]["started"] = toISOString(e.key)
          /\ \A c \in Counters : Has(heap'[e.ref], c) => heap'[e.ref][c] >= 1
     /\ \A e \in PendingEntries \cap PendingEntries' :
          heap'[e.ref]["started"] = heap[e.ref]["started"]]_vars

\* a bucket that has counted two sessions, in a window that is not the epoch's
C26_Witness ==
  \E e \in PendingEntries :
    /\ e.key > 0
    /\ BucketTotal(heap[e.ref]) = 2
    /\ heap[e.ref]["started"] = toISOString(e.key)

\* C24: after any update() made on the session after its creation, init is
\* false
C24_InitFalseAfterUpdate ==
  [][(sessionCall'.op = "update" /\ calls' = calls + 1) => ~sessionFields'["init"]]_vars

\* the step is a call on the Session: its construction, update(), close(), or
\* the update captureSession makes
SessionStep == sessionCall' # sessionCall \/ calls' # calls \/ sessionFields' # sessionFields

\* C24, amended: init is true at creation unless the constructor's context
\* carries an init; a later call changes it only when its context carries an
\* init, to that value; captureSession leaves it false on the session it has
\* sent on its own
C24_InitAsSupplied ==
  [][/\ SessionStep =>
          sessionFields'["init"] =
            IF Has(sessionCall'.context, "init") THEN sessionCall'.context["init"]
            ELSE IF SessionExists THEN sessionFields["init"] ELSE TRUE
     /\ Len(sentSessions') > Len(sentSessions) => ~sessionFields'["init"]]_vars

\* a session that captureSession has sent on its own and that an update
\* without init has touched since: init is false; before it was sent, it was
\* true
C24_Witness ==
  /\ Len(sentSessions) = 1
  /\ sentSessions[1]["init"]
  /\ sessionCall = SessionCalled("update", Ctx("status", "crashed"), <<>>)
  /\ ~sessionFields["init"]

\* what the flusher holds: the buffer with its keys, the bucket objects, the
\* attributes kept for the payload, and the payloads built so far
FlusherHeld == <<pendingAggregates, nestedAggregates, sessionAttrs, heap, sent>>

C28_OneOutcome ==
  [][captures' = captures + 1 =>
       LET released == TruthyString(sessionFields, "release")
           application == sessionFields["sessionMode"] = "application"
           notSent == sentSessions' = sentSessions
           notAdded == added' = added /\ FlusherHeld' = FlusherHeld
           asItWas == sessionFields' = sessionFields
       IN /\ sessionFlusher = (autoSessionTracking # <<FALSE>>)
          /\ ~released => (notSent /\ notAdded /\ asItWas)
          /\ (released /\ application) =>
               /\ sentSessions' = Append(sentSessions, sessionFields)
               /\ notAdded
               /\ ~sessionFields'["init"]
          /\ (released /\ ~application /\ sessionFlusher) =>
               /\ notSent /\ asItWas
               /\ added' = added + 1
               /\ PendingTotal' = PendingTotal + 1
               /\ last'.op = "addSession"
          /\ (released /\ ~application /\ ~sessionFlusher) =>
               (notSent /\ notAdded /\ asItWas)]_vars

\* one session captured twice: sent on its own while in Application mode,
\* then put into Request mode and added to the flusher
C28_Witness ==
  /\ captures = 2
  /\ Len(sentSessions) = 1
  /\ sentSessions[1]["sessionMode"] = "application"
  /\ sessionFields["sessionMode"] = "request"
  /\ added = 1
  /\ PendingTotal = 1

====
